---- MODULE Spec2Model ----
(***************************************************************************)
(* Room membership and fan-out engine of the chat relay (src/server.js).   *)
(* The state is the Room Directory (rooms), the Typing Tracker             *)
(* (typingUsers) and the per-connection fields (readyState, username,      *)
(* rooms).  One action per callback: connection, message, close, and the   *)
(* transport leaving the OPEN state.                                       *)
(***************************************************************************)
EXTENDS Integers, Sequences, FiniteSets, TLC

\* ------------------------------------------------------------- bounds
NumConns == 2

Conns == 1..NumConns
NoConn == 0                      \* excludeWs = null

RoomNames == {"r1", "constructor"}
Names == {"alice", "bob"}

\* ------------------------------------------------------------- JS values
Null == "<null>"                 \* null / unset
Absent == "<absent>"             \* a field the decoded object does not have
NonString == "<number>"          \* a field holding a non-string value
Spaces == "  "                   \* a whitespace-only string

\* Property names every plain object inherits from Object.prototype.
ObjectPrototypeKeys ==
  {"constructor", "__proto__", "toString", "valueOf", "hasOwnProperty",
   "isPrototypeOf", "propertyIsEnumerable", "toLocaleString"}

\* Inherited members that are callable and return normally when called as
\* handler(ws, data) (this = undefined).
CallableQuietly == {"constructor", "toString"}

IsString(v) == v \notin {Absent, NonString, Null}
Trim(v) == IF v = Spaces THEN "" ELSE v
Truthy(v) == v \notin {Null, Absent, ""}

\* ------------------------------------------------------------- sequences as ordered sets
InSeq(x, s) == \E i \in 1..Len(s) : s[i] = x
SeqAdd(s, x) == IF InSeq(x, s) THEN s ELSE Append(s, x)
SeqDelete(s, x) == SelectSeq(s, LAMBDA y : y # x)

MapSet(m, k, v) == [x \in (DOMAIN m) \cup {k} |-> IF x = k THEN v ELSE m[x]]
MapDelete(m, k) == [x \in (DOMAIN m) \ {k} |-> m[x]]
EmptyMap == [x \in {} |-> <<>>]

\* ------------------------------------------------------------- state
VARIABLES
  rooms,        \* Map<roomName, Set<WebSocket>>: present keys -> members in insertion order
  typingUsers,  \* { roomName: Set<username> }: own keys -> names in insertion order
  readyState,   \* per connection: "NONE", "OPEN", "CLOSING", "CLOSED"
  username,     \* ws.username
  wsRooms,      \* ws.rooms, in insertion order
  crashed,      \* an exception escaped a callback: the process is gone
  out,          \* events delivered to each connection by the last callback, in order
  last          \* the callback that ran last, its input, and whether the
                \* connection was a member of the named room, and its
                \* username, when the callback began

vars == <<rooms, typingUsers, readyState, username, wsRooms, crashed, out, last>>

NoOut == [c \in Conns |-> <<>>]

\* The program state threaded through one callback.
Cur == [rooms |-> rooms, typingUsers |-> typingUsers, readyState |-> readyState,
        username |-> username, wsRooms |-> wsRooms, crashed |-> FALSE, out |-> NoOut]

\* ------------------------------------------------------------- events
\* An optional number is <<>> when absent and <<n>> when present.
EvAt(type, room, sender, list, content, timestamp) ==
  [type |-> type, room |-> room, sender |-> sender, list |-> list, content |-> content,
   timestamp |-> timestamp]

Ev(type, room, sender, list, content) == EvAt(type, room, sender, list, content, <<>>)

\* Date.now()
Now == 1000

\* data.timestamp || Date.now()
TimestampOrNow(data) ==
  IF data.timestamp # <<>> /\ data.timestamp[1] # 0 THEN data.timestamp ELSE <<Now>>

\* ------------------------------------------------------------- helper functions
\* JSON.parse in a try/catch: null when the payload does not decode.
parseJSON(msg) == IF msg.kind = "undecodable" THEN [msg EXCEPT !.kind = "null"] ELSE msg

send(S, ws, data) ==
  IF S.readyState[ws] = "OPEN" THEN [S EXCEPT !.out[ws] = Append(@, data)] ELSE S

MissingFields(data, fields) ==
  SelectSeq(fields, LAMBDA f : ~IsString(data[f]) \/ ~Truthy(Trim(data[f])))

requireFieldsOk(data, fields) == MissingFields(data, fields) = <<>>

requireFields(S, ws, data, fields) ==
  IF MissingFields(data, fields) # <<>>
  THEN send(S, ws, Ev("error", Null, Null, MissingFields(data, fields),
                      "Missing or invalid fields"))
  ELSE S

\* broadcast that drops the members it finds not open.
broadcastToRoomPrune(S, room, payload, excludeWs) ==
  IF room \notin DOMAIN S.rooms THEN S
  ELSE [S EXCEPT !.out =
          [c \in Conns |->
             IF InSeq(c, S.rooms[room]) /\ S.readyState[c] = "OPEN" /\ c # excludeWs
             THEN Append(S.out[c], payload) ELSE S.out[c]],
                 !.rooms[room] = SelectSeq(@, LAMBDA c : S.readyState[c] = "OPEN")]

broadcastToRoom(S, room, payload, excludeWs) ==
  IF room \notin DOMAIN S.rooms THEN S
  ELSE [S EXCEPT !.out =
          [c \in Conns |->
             IF InSeq(c, S.rooms[room]) /\ S.readyState[c] = "OPEN" /\ c # excludeWs
             THEN Append(S.out[c], payload) ELSE S.out[c]]]

\* presence list built as a set of names: one entry per distinct identity.
PresenceUsersDistinct(S, room) ==
  LET members == S.rooms[room]
      names == [i \in 1..Len(members) |-> S.username[members[i]]]
      firsts == {i \in 1..Len(names) : \A j \in 1..(i - 1) : names[j] # names[i]}
      keep == [i \in 1..Len(names) |-> IF i \in firsts THEN names[i] ELSE Null]
  IN SelectSeq(keep, Truthy)

\* [...rooms.get(room)].map(c => c.username).filter(Boolean)
PresenceUsers(S, room) ==
  LET members == S.rooms[room]
      names == [i \in 1..Len(members) |-> S.username[members[i]]]
  IN SelectSeq(names, Truthy)

broadcastPresence(S, room) ==
  IF room \notin DOMAIN S.rooms THEN S
  ELSE broadcastToRoom(S, room, Ev("presence", room, Null, PresenceUsers(S, room), Null),
                       NoConn)

\* typingUsers[room] on a plain object: an own entry, else whatever
\* Object.prototype supplies under that name, else undefined.
TypingLookup(S, room) ==
  IF room \in DOMAIN S.typingUsers THEN "own"
  ELSE IF room \in ObjectPrototypeKeys THEN "inherited"
  ELSE "undefined"

\* ------------------------------------------------------------- room logic
\* member list kept as an array: the connection is pushed on every join.
joinRoomMembersPush(S, ws, room) ==
  LET S1 == IF room \notin DOMAIN S.rooms
            THEN [S EXCEPT !.rooms = MapSet(@, room, <<>>)] ELSE S
      S2 == [S1 EXCEPT !.rooms[room] = Append(@, ws)]
  IN [S2 EXCEPT !.wsRooms[ws] = SeqAdd(@, room)]

joinRoomMembers(S, ws, room) ==
  LET S1 == IF room \notin DOMAIN S.rooms
            THEN [S EXCEPT !.rooms = MapSet(@, room, <<>>)] ELSE S
      S2 == [S1 EXCEPT !.rooms[room] = SeqAdd(@, ws)]
  IN [S2 EXCEPT !.wsRooms[ws] = SeqAdd(@, room)]

\* joinRoom announcing the join to the joiner as well.
joinRoomNoExclude(S, ws, room) ==
  LET S1 == joinRoomMembers(S, ws, room)
      S2 == broadcastToRoom(S1, room, Ev("user_joined", room, S1.username[ws], <<>>, Null),
                            NoConn)
      S3 == send(S2, ws, Ev("system", Null, Null, <<>>, "Joined room: " \o room))
  IN broadcastPresence(S3, room)

joinRoom(S, ws, room) ==
  LET S1 == joinRoomMembers(S, ws, room)
      S2 == broadcastToRoom(S1, room, Ev("user_joined", room, S1.username[ws], <<>>, Null), ws)
      S3 == send(S2, ws, Ev("system", Null, Null, <<>>, "Joined room: " \o room))
  IN broadcastPresence(S3, room)

\* leaveRoom without the eager delete of an emptied room.
leaveRoomMembersKeepEmpty(S, ws, room) ==
  LET S1 == IF room \in DOMAIN S.rooms
            THEN [S EXCEPT !.rooms[room] = SeqDelete(@, ws)] ELSE S
  IN [S1 EXCEPT !.wsRooms[ws] = SeqDelete(@, room)]

leaveRoomMembers(S, ws, room) ==
  LET S1 == IF room \in DOMAIN S.rooms
            THEN LET left == SeqDelete(S.rooms[room], ws)
                 IN IF Len(left) = 0
                    THEN [S EXCEPT !.rooms = MapDelete(@, room)]
                    ELSE [S EXCEPT !.rooms[room] = left]
            ELSE S
  IN [S1 EXCEPT !.wsRooms[ws] = SeqDelete(@, room)]

\* "Remove from typing list": the result is crashed when typingUsers[room] is
\* an inherited member, which has no delete method.
leaveRoomTyping(S, ws, room) ==
  CASE TypingLookup(S, room) = "undefined" -> S
    [] TypingLookup(S, room) = "inherited" -> [S EXCEPT !.crashed = TRUE]
    [] OTHER ->
         LET left == SeqDelete(S.typingUsers[room], S.username[ws])
         IN IF Len(left) = 0
            THEN [S EXCEPT !.typingUsers = MapDelete(@, room)]
            ELSE broadcastToRoom([S EXCEPT !.typingUsers[room] = left], room,
                                 Ev("typing", room, Null, left, Null), NoConn)

\* leaveRoom that notifies first and removes the member last.
leaveRoomLate(S, ws, room) ==
  LET S2 == leaveRoomTyping(S, ws, room)
      S3 == broadcastToRoom(S2, room, Ev("user_left", room, S2.username[ws], <<>>, Null), ws)
      S4 == send(S3, ws, Ev("system", Null, Null, <<>>, "Left room: " \o room))
  IN IF S2.crashed THEN leaveRoomMembers(S2, ws, room)
     ELSE leaveRoomMembers(broadcastPresence(S4, room), ws, room)

leaveRoom(S, ws, room) ==
  LET S1 == leaveRoomMembers(S, ws, room)
      S2 == leaveRoomTyping(S1, ws, room)
      S3 == broadcastToRoom(S2, room, Ev("user_left", room, S2.username[ws], <<>>, Null), ws)
      S4 == send(S3, ws, Ev("system", Null, Null, <<>>, "Left room: " \o room))
  IN IF S2.crashed THEN S2 ELSE broadcastPresence(S4, room)

\* ------------------------------------------------------------- message handlers
\* join handler that stores the sender before validating.
HandleJoinEarlyName(S, ws, data) ==
  IF requireFieldsOk(data, <<"room", "sender">>)
  THEN joinRoom([S EXCEPT !.username[ws] = data.sender], ws, data.room)
  ELSE requireFields([S EXCEPT !.username[ws] = data.sender], ws, data,
                     <<"room", "sender">>)

HandleJoin(S, ws, data) ==
  IF requireFieldsOk(data, <<"room", "sender">>)
  THEN joinRoom([S EXCEPT !.username[ws] = data.sender], ws, data.room)
  ELSE requireFields(S, ws, data, <<"room", "sender">>)

HandleLeave(S, ws, data) ==
  IF requireFieldsOk(data, <<"room">>)
  THEN leaveRoom(S, ws, data.room)
  ELSE requireFields(S, ws, data, <<"room">>)

\* message handler without the membership test.
HandleMessageNoMembership(S, ws, data) ==
  IF ~requireFieldsOk(data, <<"room", "content">>)
  THEN requireFields(S, ws, data, <<"room", "content">>)
  ELSE broadcastToRoom(S, data.room,
                       EvAt("message", data.room, S.username[ws], <<>>, data.content,
                            TimestampOrNow(data)), NoConn)

\* message handler that leaves the sender out of the broadcast.
HandleMessageNoEcho(S, ws, data) ==
  IF ~requireFieldsOk(data, <<"room", "content">>)
  THEN requireFields(S, ws, data, <<"room", "content">>)
  ELSE IF InSeq(data.room, S.wsRooms[ws])
  THEN broadcastToRoom(S, data.room,
                       EvAt("message", data.room, S.username[ws], <<>>, data.content,
                            TimestampOrNow(data)), ws)
  ELSE S

HandleMessage(S, ws, data) ==
  IF ~requireFieldsOk(data, <<"room", "content">>)
  THEN requireFields(S, ws, data, <<"room", "content">>)
  ELSE IF InSeq(data.room, S.wsRooms[ws])
  THEN broadcastToRoom(S, data.room,
                       EvAt("message", data.room, S.username[ws], <<>>, data.content,
                            TimestampOrNow(data)), NoConn)
  ELSE S

HandleReaction(S, ws, data) ==
  IF ~requireFieldsOk(data, <<"room", "target", "emoji">>)
  THEN requireFields(S, ws, data, <<"room", "target", "emoji">>)
  ELSE IF InSeq(data.room, S.wsRooms[ws])
  THEN broadcastToRoom(S, data.room,
                       EvAt("reaction", data.room, S.username[ws], <<data.target>>,
                            data.emoji, TimestampOrNow(data)),
                       NoConn)
  ELSE S

HandlePresenceRequest(S, ws, data) ==
  IF ~requireFieldsOk(data, <<"room">>)
  THEN requireFields(S, ws, data, <<"room">>)
  ELSE IF InSeq(data.room, S.wsRooms[ws])
  THEN broadcastPresence(S, data.room)
  ELSE S

\* typingUsers[room] after "if (!typingUsers[room]) typingUsers[room] = new Set()"
\* and the add/delete.
TypingUpdate(S, room, user, typing) ==
  LET S1 == IF TypingLookup(S, room) = "undefined"
            THEN [S EXCEPT !.typingUsers = MapSet(@, room, <<>>)] ELSE S
  IN [S1 EXCEPT !.typingUsers[room] = IF typing THEN SeqAdd(@, user) ELSE SeqDelete(@, user)]

HandleTyping(S, ws, data) ==
  IF ~requireFieldsOk(data, <<"room">>)
  THEN requireFields(S, ws, data, <<"room">>)
  ELSE IF ~Truthy(S.username[ws]) \/ ~InSeq(data.room, S.wsRooms[ws]) THEN S
  ELSE IF TypingLookup(S, data.room) = "inherited" THEN [S EXCEPT !.crashed = TRUE]
  ELSE LET S1 == TypingUpdate(S, data.room, S.username[ws], data.typing)
       IN broadcastToRoom(S1, data.room,
                          Ev("typing", data.room, Null, S1.typingUsers[data.room], Null),
                          NoConn)

HandlerNames == {"join", "leave", "message", "reaction", "presence_request", "typing"}

\* messageHandlers[data.type]: an own handler, an inherited member, or undefined.
HandlerLookup(type) ==
  IF type \in HandlerNames THEN "own"
  ELSE IF type \in ObjectPrototypeKeys THEN "inherited"
  ELSE "undefined"

Dispatch(S, ws, data) ==
  CASE data.type = "join" -> HandleJoin(S, ws, data)
    [] data.type = "leave" -> HandleLeave(S, ws, data)
    [] data.type = "message" -> HandleMessage(S, ws, data)
    [] data.type = "reaction" -> HandleReaction(S, ws, data)
    [] data.type = "presence_request" -> HandlePresenceRequest(S, ws, data)
    [] data.type = "typing" -> HandleTyping(S, ws, data)

\* ws.on('message')
onMessage(S, ws, msg) ==
  LET data == parseJSON(msg)
  IN IF data.kind = "null"
     THEN send(S, ws, Ev("error", Null, Null, <<>>, "Invalid JSON"))
     ELSE CASE HandlerLookup(data.type) = "own" -> Dispatch(S, ws, data)
            [] HandlerLookup(data.type) = "inherited" ->
                 IF data.type \in CallableQuietly THEN S ELSE [S EXCEPT !.crashed = TRUE]
            [] OTHER ->
                 send(S, ws, Ev("error", Null, Null, <<>>,
                                "Unknown message type: " \o
                                  (IF data.type = Absent THEN "undefined" ELSE data.type)))

\* for (const room of ws.rooms) leaveRoom(ws, room): the iterator walks the
\* entries in insertion order and passes over entries deleted meanwhile; an
\* exception ends the loop.
RECURSIVE closeLoop(_, _, _, _)
closeLoop(S, ws, order, i) ==
  IF i > Len(order) \/ S.crashed THEN S
  ELSE IF InSeq(order[i], S.wsRooms[ws])
  THEN closeLoop(leaveRoom(S, ws, order[i]), ws, order, i + 1)
  ELSE closeLoop(S, ws, order, i + 1)

onClose(S, ws) == closeLoop(S, ws, S.wsRooms[ws], 1)

\* ------------------------------------------------------------- inbound payloads
Msg(type, room, sender, content, target, emoji, typing) ==
  [kind |-> "object", type |-> type, room |-> room, sender |-> sender,
   content |-> content, target |-> target, emoji |-> emoji, typing |-> typing,
   timestamp |-> <<>>]

NoMsg == [Msg(Absent, Absent, Absent, Absent, Absent, Absent, FALSE) EXCEPT !.kind = "none"]
Undecodable == [NoMsg EXCEPT !.kind = "undecodable"]
NullLiteral == [NoMsg EXCEPT !.kind = "null"]

ClientTimestamps == {0, 5}

\* Every type with each room name and well-formed fields, and for every type
\* payloads whose required fields are missing, empty, blank or not strings.
Messages ==
  {Undecodable, NullLiteral}
  \cup {Msg(t, Absent, Absent, Absent, Absent, Absent, FALSE) :
          t \in {"bogus", Absent, "constructor", "__proto__"}}
  \cup {Msg("join", r, s, Absent, Absent, Absent, FALSE) : r \in RoomNames, s \in Names}
  \cup {Msg("join", "r1", NonString, Absent, Absent, Absent, FALSE),
        Msg("join", Spaces, "", Absent, Absent, Absent, FALSE)}
  \cup {Msg("leave", r, Absent, Absent, Absent, Absent, FALSE) :
          r \in RoomNames \cup {Absent}}
  \cup {Msg("message", r, Absent, "hi", Absent, Absent, FALSE) : r \in RoomNames}
  \cup {Msg("message", "r1", Absent, Absent, Absent, Absent, FALSE)}
  \cup {[Msg("message", "r1", Absent, "hi", Absent, Absent, FALSE) EXCEPT !.timestamp = <<t>>] :
          t \in ClientTimestamps}
  \cup {Msg("reaction", r, Absent, Absent, "m1", "+1", FALSE) : r \in {"r1", NonString}}
  \cup {Msg("reaction", "r1", Absent, Absent, Absent, "", FALSE)}
  \cup {Msg("presence_request", r, Absent, Absent, Absent, Absent, FALSE) :
          r \in RoomNames \cup {Spaces}}
  \cup {Msg("typing", r, Absent, Absent, Absent, Absent, t) :
          r \in RoomNames, t \in BOOLEAN}
  \cup {Msg("typing", Absent, Absent, Absent, Absent, Absent, TRUE)}

\* ------------------------------------------------------------- the state machine
Init ==
  /\ rooms = EmptyMap
  /\ typingUsers = EmptyMap
  /\ readyState = [c \in Conns |-> "NONE"]
  /\ username = [c \in Conns |-> Null]
  /\ wsRooms = [c \in Conns |-> <<>>]
  /\ crashed = FALSE
  /\ out = NoOut
  /\ last = [op |-> "init", conn |-> NoConn, msg |-> NoMsg, member |-> FALSE,
             name |-> Null]

Commit(S, op, ws, msg) ==
  /\ rooms' = S.rooms
  /\ typingUsers' = S.typingUsers
  /\ readyState' = S.readyState
  /\ username' = S.username
  /\ wsRooms' = S.wsRooms
  /\ crashed' = S.crashed
  /\ out' = S.out
  /\ last' = [op |-> op, conn |-> ws, msg |-> msg,
              member |-> InSeq(msg.room, wsRooms[ws]), name |-> username[ws]]

\* wss.on('connection'): a new socket, open, with ws.rooms empty and no username.
Connect(ws) ==
  /\ ~crashed
  /\ readyState[ws] = "NONE"
  /\ Commit([Cur EXCEPT !.readyState[ws] = "OPEN", !.wsRooms[ws] = <<>>,
                        !.username[ws] = Null],
            "connection", ws, NoMsg)

\* ws.on('message'): the transport hands over payloads of open sockets only.
Message(ws, msg) ==
  /\ ~crashed
  /\ readyState[ws] = "OPEN"
  /\ Commit(onMessage(Cur, ws, msg), "message", ws, msg)

\* The transport leaves OPEN (closing handshake or socket error) some time
\* before the close event is emitted.
BeginClose(ws) ==
  /\ ~crashed
  /\ readyState[ws] = "OPEN"
  /\ Commit([Cur EXCEPT !.readyState[ws] = "CLOSING"], "closing", ws, NoMsg)

\* ws.on('close'): emitted with readyState CLOSED.  A further run of the
\* handler on an already closed socket is allowed, to examine idempotence.
Close(ws) ==
  /\ ~crashed
  /\ readyState[ws] \in {"OPEN", "CLOSING", "CLOSED"}
  /\ Commit(onClose([Cur EXCEPT !.readyState[ws] = "CLOSED"], ws), "close", ws, NoMsg)

Next ==
  \/ \E ws \in Conns : Connect(ws)
  \/ \E ws \in Conns : \E msg \in Messages : Message(ws, msg)
  \/ \E ws \in Conns : BeginClose(ws)
  \/ \E ws \in Conns : Close(ws)

Spec == Init /\ [][Next]_vars

\* ------------------------------------------------------------- properties
CoreUnchanged == UNCHANGED <<rooms, typingUsers, username, wsRooms>>

IsMember(ws, room) == room \in DOMAIN rooms /\ InSeq(ws, rooms[room])

\* The required fields of each message type.
Required(type) ==
  CASE type = "join" -> <<"room", "sender">>
    [] type = "leave" -> <<"room">>
    [] type = "message" -> <<"room", "content">>
    [] type = "reaction" -> <<"room", "target", "emoji">>
    [] type = "presence_request" -> <<"room">>
    [] type = "typing" -> <<"room">>

WellFormed(msg) ==
  /\ msg.kind = "object"
  /\ msg.type \in HandlerNames
  /\ \A i \in 1..Len(Required(msg.type)) :
       LET v == msg[Required(msg.type)[i]]
       IN v \notin {Absent, NonString, "", Spaces}

Malformed(msg) ==
  \/ msg.kind \in {"undecodable", "null"}
  \/ msg.kind = "object" /\ msg.type \in HandlerNames /\ ~WellFormed(msg)

OnlyErrorTo(ws, o) ==
  /\ Len(o[ws]) = 1
  /\ o[ws][1].type = "error"
  /\ \A c \in Conns \ {ws} : o[c] = <<>>

\* C1: a room name is a key of the Room Directory only with a non-empty
\* member set; no reachable state holds a room entry with zero members.
C1_NoEmptyRoom == \A r \in DOMAIN rooms : Len(rooms[r]) > 0

\* A member has just left r1 as its last member and the entry is gone, while
\* another room entry is still there.
C1_Witness ==
  /\ last.op = "message" /\ last.msg.type = "leave" /\ last.msg.room = "r1"
  /\ last.member
  /\ "r1" \notin DOMAIN rooms
  /\ "constructor" \in DOMAIN rooms

\* C2: every identity in a room's typing set is the current display identity
\* of at least one connection that is currently a member of that room.
C2_TypingNamesAreMembers ==
  \A r \in DOMAIN typingUsers :
    \A i \in 1..Len(typingUsers[r]) :
      \E c \in Conns : IsMember(c, r) /\ username[c] = typingUsers[r][i]

\* C3: no room has an empty typing set stored in the Typing Tracker.
C3_NoEmptyTypingSet == \A r \in DOMAIN typingUsers : Len(typingUsers[r]) > 0

\* C4: a decoded message whose type is none of the six handler names gets
\* exactly one error event to the sender, nothing to anyone else, and no
\* room, typing or connection state changes.
C4_UnknownTypeIsError ==
  [][(last'.op = "message" /\ last'.msg.kind = "object"
        /\ last'.msg.type \notin HandlerNames)
       => (OnlyErrorTo(last'.conn, out') /\ CoreUnchanged)]_vars

\* C5: processing any single inbound message completes normally; the server
\* never reaches a crashed state because of one connection's input.
C5_MessageNeverCrashes == last.op = "message" => ~crashed

\* C6: a leave for room r by a connection that is not a member of r changes
\* no room, typing or membership state and delivers no user_left, typing or
\* presence event to any member of r.
C6_LeaveByNonMemberIsNoop ==
  [][(last'.op = "message" /\ WellFormed(last'.msg) /\ last'.msg.type = "leave"
        /\ ~IsMember(last'.conn, last'.msg.room))
       => /\ CoreUnchanged
          /\ \A c \in Conns :
               IsMember(c, last'.msg.room) =>
                 \A i \in 1..Len(out'[c]) :
                   out'[c][i].type \notin {"user_left", "typing", "presence"}]_vars

\* C7: a well-formed message, reaction, presence_request or typing event from
\* a connection that is not a member of the named room delivers no event to
\* anyone and changes no room, typing or connection state.
C7_NonMemberSilentlyDropped ==
  [][(last'.op = "message"
        /\ last'.msg.type \in {"message", "reaction", "presence_request", "typing"}
        /\ WellFormed(last'.msg)
        /\ ~InSeq(last'.msg.room, wsRooms[last'.conn]))
       => (out' = NoOut /\ CoreUnchanged /\ ~crashed')]_vars

\* A non-member has just sent a well-formed message to a room that has members.
C7_Witness ==
  /\ last.op = "message" /\ WellFormed(last.msg)
  /\ last.msg.type \in {"message", "typing"}
  /\ ~last.member
  /\ last.msg.room \in DOMAIN rooms
  /\ username[last.conn] # Null

\* C8: an undecodable payload, or a known type with a required field
\* missing, non-string or empty, gets exactly one error event to the sender,
\* nothing to anyone else, and leaves rooms, typing sets, identities and
\* membership records unchanged.
C8_MalformedOnlyError ==
  [][(last'.op = "message" /\ Malformed(last'.msg))
       => (OnlyErrorTo(last'.conn, out') /\ CoreUnchanged /\ ~crashed')]_vars

\* An identified member has just sent a join with a valid room and an
\* invalid sender, and got the error.
C8_Witness ==
  /\ last.op = "message" /\ last.msg.type = "join"
  /\ last.msg.room = "r1" /\ last.msg.sender = NonString
  /\ username[last.conn] \in Names
  /\ Len(out[last.conn]) = 1

\* C9: after the close handler has run for a connection, the connection is
\* in no room's member set and its membership record is empty.
C9_CloseLeavesEveryRoom ==
  last.op = "close" =>
    /\ wsRooms[last.conn] = <<>>
    /\ \A r \in DOMAIN rooms : ~InSeq(last.conn, rooms[r])

\* The events about room r in one connection's deliveries, in order.
RoomEvents(o, r) == SelectSeq(o, LAMBDA e : e.room = r)

\* Connection A departs from r (by a leave for r, or by closing) while it is a
\* member of r, its identity is in r's typing set and other members remain.
Departs(A, r) ==
  /\ last'.conn = A
  /\ \/ last'.op = "close"
     \/ last'.op = "message" /\ WellFormed(last'.msg)
          /\ last'.msg.type = "leave" /\ last'.msg.room = r
  /\ IsMember(A, r)
  /\ Len(rooms[r]) > 1
  /\ r \in DOMAIN typingUsers
  /\ InSeq(username[A], typingUsers[r])

\* What a remaining open member is to receive about r, read off the state
\* after the departure.
DepartureEvents(A, r) ==
  (IF r \in DOMAIN typingUsers'
   THEN <<Ev("typing", r, Null, typingUsers'[r], Null)>> ELSE <<>>)
  \o <<Ev("user_left", r, username[A], <<>>, Null),
       Ev("presence", r, Null,
          SelectSeq([i \in 1..Len(rooms'[r]) |-> username'[rooms'[r][i]]], Truthy),
          Null)>>

DepartureOrder(A, r) ==
  /\ r \in DOMAIN rooms' /\ ~InSeq(A, rooms'[r])
  /\ r \in DOMAIN typingUsers' => /\ typingUsers'[r] # <<>>
                                  /\ ~InSeq(username[A], typingUsers'[r])
  /\ \A B \in Conns \ {A} :
       (IsMember(B, r) /\ readyState[B] = "OPEN")
         => RoomEvents(out'[B], r) = DepartureEvents(A, r)
  /\ \A i \in 1..Len(out'[A]) : ~(out'[A][i].type = "user_left" /\ out'[A][i].room = r)

\* C10: when a typing member A of r disconnects or leaves while other members
\* remain, every remaining open member receives, in order, a typing event
\* without A's identity (only if the typing set is still non-empty), then
\* user_left with A's identity, then a presence event without A's membership;
\* A receives no user_left for its own departure.
C10_DepartureOrder ==
  [][\A A \in Conns : \A r \in RoomNames : Departs(A, r) => DepartureOrder(A, r)]_vars

\* The same statement for departures whose callback returns normally.
DepartureOrderWhenNoThrow ==
  [][\A A \in Conns : \A r \in RoomNames :
       (Departs(A, r) /\ ~crashed') => DepartureOrder(A, r)]_vars

CloseLeavesEveryRoomWhenNoThrow ==
  (last.op = "close" /\ ~crashed) =>
    /\ wsRooms[last.conn] = <<>>
    /\ \A r \in DOMAIN rooms : ~InSeq(last.conn, rooms[r])

\* The display identities of r's members, one per member connection in
\* insertion order, unset and empty identities left out.
NonEmptyName(v) == v \notin {Null, ""}
MemberIdentities(r) ==
  SelectSeq([i \in 1..Len(rooms[r]) |-> username[rooms[r][i]]], NonEmptyName)
MemberIdentitiesAfter(r) ==
  SelectSeq([i \in 1..Len(rooms'[r]) |-> username'[rooms'[r][i]]], NonEmptyName)

IsValidJoin(msg) == msg.type = "join" /\ WellFormed(msg)

JoinDeliveries(B, r, s) ==
  LET presence == Ev("presence", r, Null, MemberIdentitiesAfter(r), Null)
  IN /\ r \in DOMAIN rooms' /\ InSeq(B, rooms'[r])
     /\ InSeq(s, presence.list)
     /\ Len(out'[B]) = 2 /\ out'[B][1].type = "system" /\ out'[B][2] = presence
     /\ \A c \in Conns \ {B} :
          IF IsMember(c, r) /\ readyState[c] = "OPEN"
          THEN out'[c] = <<Ev("user_joined", r, s, <<>>, Null), presence>>
          ELSE out'[c] = <<>>
     /\ r \notin DOMAIN rooms => presence.list = <<s>>

\* C11: on a valid join of B (sender s) into r every other open member of r
\* receives user_joined{s} then presence; B receives system then presence and
\* no user_joined; the presence lists all current members, s included; into
\* an empty room B gets presence [s] and nobody else gets anything.
C11_JoinDeliveries ==
  [][(last'.op = "message" /\ IsValidJoin(last'.msg))
       => JoinDeliveries(last'.conn, last'.msg.room, last'.msg.sender)]_vars

\* A join into r1 has just been announced to another member.
C11_Witness ==
  /\ last.op = "message" /\ last.msg.type = "join" /\ last.msg.room = "r1"
  /\ \E c \in Conns \ {last.conn} :
       /\ Len(out[c]) = 2 /\ out[c][1].type = "user_joined"
       /\ out[c][2].type = "presence" /\ Len(out[c][2].list) = 2

\* C12: every presence event for room r lists the display identities of
\* exactly the connections that are members of r when it is emitted, one
\* entry per member (duplicates kept), in insertion order, unset or empty
\* identities left out.
C12_PresenceIsMemberList ==
  \A c \in Conns : \A i \in 1..Len(out[c]) :
    out[c][i].type = "presence" =>
      /\ out[c][i].room \in DOMAIN rooms
      /\ out[c][i].list = MemberIdentities(out[c][i].room)

\* A presence event listing two members that share one identity.
C12_Witness ==
  \E c \in Conns : \E i \in 1..Len(out[c]) :
    out[c][i].type = "presence" /\ out[c][i].list = <<"alice", "alice">>

\* C13: a valid message from a member c of r is delivered exactly once to
\* every open member of r, c included, with c's identity and the content,
\* and to no connection outside r.
C13_MessageFanOut ==
  [][(last'.op = "message" /\ last'.msg.type = "message" /\ WellFormed(last'.msg)
        /\ InSeq(last'.msg.room, wsRooms[last'.conn]))
       => /\ Len(out'[last'.conn]) = 1
          /\ \A c \in Conns :
               IF IsMember(c, last'.msg.room) /\ readyState[c] = "OPEN"
               THEN /\ Len(out'[c]) = 1
                    /\ out'[c][1].type = "message"
                    /\ out'[c][1].room = last'.msg.room
                    /\ out'[c][1].sender = username[last'.conn]
                    /\ out'[c][1].content = last'.msg.content
               ELSE out'[c] = <<>>]_vars

\* A member's message has just reached two open members, the sender included.
C13_Witness ==
  /\ last.op = "message" /\ last.msg.type = "message" /\ last.member
  /\ \A c \in Conns : Len(out[c]) = 1 /\ out[c][1].type = "message"

IsMemberAfter(ws, room) == room \in DOMAIN rooms' /\ InSeq(ws, rooms'[room])

\* Connection c departs from room r in this step: its own leave for r, or
\* its close handler.
DepartureOf(c, r) ==
  /\ last'.conn = c
  /\ \/ last'.op = "close"
     \/ last'.op = "message" /\ last'.msg.type = "leave" /\ last'.msg.room = r

\* C14: a broadcast skips members whose transport is not open and removes
\* nobody: a member leaves a member set only by its own leave or close
\* handler, a connection that is not open receives nothing, the open members
\* of a room still receive a member's message, and a presence snapshot still
\* counts the members that are not open.
C14_BroadcastRemovesNobody ==
  [][/\ \A r \in DOMAIN rooms : \A i \in 1..Len(rooms[r]) :
          IsMemberAfter(rooms[r][i], r) \/ DepartureOf(rooms[r][i], r)
     /\ \A c \in Conns : readyState'[c] # "OPEN" => out'[c] = <<>>
     /\ (last'.op = "message"
           /\ last'.msg.type \in {"message", "presence_request"}
           /\ WellFormed(last'.msg)
           /\ IsMember(last'.conn, last'.msg.room))
          => \A c \in Conns :
               (IsMember(c, last'.msg.room) /\ readyState[c] = "OPEN")
                 => /\ Len(out'[c]) = 1
                    /\ out'[c][1].type = "presence"
                         => Len(out'[c][1].list) = Len(rooms[last'.msg.room])]_vars

\* A member has just broadcast in r1 while another member of r1 is no longer
\* open and has not run its close handler; that member is still in the set.
C14_Witness ==
  /\ last.op = "message" /\ last.msg.type \in {"message", "presence_request"}
  /\ last.msg.room = "r1" /\ last.member
  /\ Len(out[last.conn]) = 1
  /\ \E c \in Conns \ {last.conn} :
       readyState[c] = "CLOSING" /\ IsMember(c, "r1") /\ out[c] = <<>>

TypingBy(ws, r) ==
  /\ last'.op = "message" /\ last'.conn = ws
  /\ last'.msg.type = "typing" /\ last'.msg.room = r
  /\ WellFormed(last'.msg)
  /\ InSeq(r, wsRooms[ws])
  /\ NonEmptyName(username[ws])

TypingBroadcast(ws, r) ==
  /\ ~crashed'
  /\ r \in DOMAIN typingUsers'
  /\ InSeq(username[ws], typingUsers'[r]) <=> last'.msg.typing
  /\ \A n \in Names \ {username[ws]} :
       InSeq(n, typingUsers'[r]) <=> (r \in DOMAIN typingUsers /\ InSeq(n, typingUsers[r]))
  /\ \A c \in Conns :
       IF IsMember(c, r) /\ readyState[c] = "OPEN"
       THEN out'[c] = <<Ev("typing", r, Null, typingUsers'[r], Null)>>
       ELSE out'[c] = <<>>
  /\ Len(out'[ws]) = 1

\* C15: a valid typing event from an identified member c of r adds or
\* removes c's identity in r's typing set and then always broadcasts one
\* typing event with the resulting set to every open member of r, c included.
C15_TypingBroadcast ==
  [][(last'.op = "message" /\ TypingBy(last'.conn, last'.msg.room))
       => TypingBroadcast(last'.conn, last'.msg.room)]_vars

\* The same statement for typing events whose callback returns normally.
TypingBroadcastWhenNoThrow ==
  [][(last'.op = "message" /\ TypingBy(last'.conn, last'.msg.room) /\ ~crashed')
       => TypingBroadcast(last'.conn, last'.msg.room)]_vars

\* C16: the broadcast message event's timestamp equals the client-supplied
\* timestamp for every supplied value (0 included), and the server's current
\* time only when the field is absent.
C16_TimestampPreserved ==
  (last.op = "message" /\ last.msg.type = "message" /\ WellFormed(last.msg) /\ last.member)
    => \A c \in Conns : \A i \in 1..Len(out[c]) :
         out[c][i].type = "message" =>
           out[c][i].timestamp =
             (IF last.msg.timestamp # <<>> THEN last.msg.timestamp ELSE <<Now>>)

\* C17: a join for r by a connection that is already a member of r, with the
\* sender it already has, leaves the Room Directory, the membership records,
\* the identities and the typing sets as they were; r holds the connection
\* once and the presence event has one entry per member.
C17_RejoinKeepsState ==
  [][(last'.op = "message" /\ IsValidJoin(last'.msg)
        /\ IsMember(last'.conn, last'.msg.room)
        /\ username[last'.conn] = last'.msg.sender)
       => /\ CoreUnchanged
          /\ Len(SelectSeq(rooms'[last'.msg.room], LAMBDA c : c = last'.conn)) = 1
          /\ Len(out'[last'.conn]) = 2
          /\ Len(out'[last'.conn][2].list) = Len(rooms[last'.msg.room])]_vars

\* A member of r1 has just joined r1 again under the name it already had,
\* with another member in the room.
C17_Witness ==
  /\ last.op = "message" /\ last.msg.type = "join" /\ last.msg.room = "r1"
  /\ last.member /\ last.name = last.msg.sender
  /\ Len(rooms["r1"]) = 2
  /\ Len(out[last.conn]) = 2

MembershipRecordsAgree ==
  \A c \in Conns : \A r \in RoomNames : IsMember(c, r) <=> InSeq(r, wsRooms[c])

\* C18: a connection is in the Room Directory's member set of r exactly when
\* r is in its own membership record; so no connection whose close handler
\* has run is a member of any room.
C18_RecordsAgreeAndClosedIsOut ==
  /\ MembershipRecordsAgree
  /\ \A c \in Conns : readyState[c] = "CLOSED" => \A r \in RoomNames : ~IsMember(c, r)

RoomScoped == {"message", "reaction", "typing", "presence", "user_joined", "user_left"}

\* C19: no message, reaction, typing, presence, user_joined or user_left
\* event for room r is delivered to a connection that is not a member of r
\* when it is delivered.
C19_OnlyMembersReceive ==
  \A c \in Conns : \A i \in 1..Len(out[c]) :
    out[c][i].type \in RoomScoped => IsMember(c, out[c][i].room)

\* An event of r1 has just been delivered to a member while an open
\* connection that had joined and has left every room received nothing.
C19_Witness ==
  /\ last.op = "message" /\ last.msg.room = "r1"
  /\ \E i \in 1..Len(out[last.conn]) : out[last.conn][i].type \in RoomScoped
  /\ \E c \in Conns \ {last.conn} :
       /\ readyState[c] = "OPEN" /\ username[c] \in Names
       /\ wsRooms[c] = <<>> /\ out[c] = <<>>

MembersAreIdentified ==
  \A c \in Conns : wsRooms[c] # <<>> => NonEmptyName(username[c])

SendersAreIdentified(types) ==
  \A c \in Conns : \A i \in 1..Len(out[c]) :
    out[c][i].type \in types => NonEmptyName(out[c][i].sender)

PresenceCountsMembers ==
  \A c \in Conns : \A i \in 1..Len(out[c]) :
    out[c][i].type = "presence" =>
      /\ out[c][i].room \in DOMAIN rooms
      /\ Len(out[c][i].list) = Len(rooms[out[c][i].room])

IdentityKept == \A c \in Conns : username[c] # Null => username'[c] # Null

\* C20: every member connection has a non-empty display identity, an
\* identity once set is never unset, every message, reaction, user_joined
\* and user_left event carries a non-empty sender, and a presence list has
\* as many entries as the room has members.
C20_IdentifiedEverywhere ==
  [][/\ IdentityKept
     /\ MembersAreIdentified'
     /\ SendersAreIdentified({"message", "reaction", "user_joined", "user_left"})'
     /\ PresenceCountsMembers']_vars

\* The same statement without the user_left events.
IdentifiedExceptUserLeft ==
  [][/\ IdentityKept
     /\ MembersAreIdentified'
     /\ SendersAreIdentified({"message", "reaction", "user_joined"})'
     /\ PresenceCountsMembers']_vars

====
